---- MODULE Spec2Model ----
(***************************************************************************)
(* A model of rust-backtrace (src/src/util.rs, elf.rs, lib.rs, pe.rs).     *)
(*                                                                         *)
(* In the ELF part bytes are modelled as cells holding naturals below      *)
(* UsizeMod, and every field of a packed record occupies one cell.  In the *)
(* PE part a cell is a byte and fields have their widths.  usize/u64       *)
(* arithmetic wraps modulo UsizeMod (the release-build behaviour of `+`    *)
(* and `-`).  MemoryMap::len() is taken to be the length the mapping was   *)
(* asked for.                                                              *)
(*                                                                         *)
(* The module holds six state machines over one set of variables:          *)
(*   SpecSection  Section::new / seek_at / read               (util.rs)    *)
(*   SpecSym      SymbolTable::symbol_name                    (elf.rs)     *)
(*   SpecLoad     load_modules / phdr_callback                (elf.rs)     *)
(*   Spec         print_traceback / trace_callback            (lib.rs)     *)
(*   SpecElf      Elf::new                                    (elf.rs)     *)
(*   SpecPe       doit                                        (pe.rs)      *)
(***************************************************************************)
EXTENDS Integers, Sequences, FiniteSets, TLC

VARIABLES
    \* ---- Section (util.rs)
    file,        \* the cells of the file the Section maps
    sec,         \* the Section under test: [map, align_size, cur]
    sec_args,    \* the offset and len Section::new was called with
    sec_out,     \* outcome of the last Section call
    sec_got,     \* the cells the reads have delivered since Section::new,
                 \* while read was the only call made (`pure`)
    \* ---- SymbolTable (elf.rs)
    modules,     \* SymbolTable.modules: Seq of Elf
    sym_addr,    \* argument of the last symbol_name call
    sym_result,  \* its return value
    \* ---- load_modules (elf.rs)
    fs,          \* the files load_modules can open: path -> file
    ld_pc,       \* "start" | "iterating" | "returned" | "panicked"
    ld_modules,  \* the Vec<Elf> handed to dl_iterate_phdr
    ld_pending,  \* callbacks dl_iterate_phdr has still to make
    ld_done,     \* callbacks already made
    ld_result,   \* return value of load_modules
    \* ---- print_traceback (lib.rs)
    pt_pc,       \* "idle" | "walking" | "stopped" | "returned" | "panicked"
    env,         \* the process: its files and its loaded objects
    cx,          \* Context: [depth, depth_limit, symbol_table]
    sink,        \* what cx.writer received, in order
    stack,       \* frames _Unwind_Backtrace has still to visit
    last_rc,     \* return code of the last trace_callback call
    last_call,   \* what the last trace_callback call saw and did
    pt_result,   \* return value of print_traceback
    \* ---- Elf::new (elf.rs)
    elf_file,    \* the file handed to Elf::new, as cells
    elf_result,  \* return value of Elf::new, once called
    \* ---- doit (pe.rs)
    pe_env,      \* the process: [name_ok, file, snapshot]
    pe_out,      \* what doit has printed, in order
    pe_result    \* return value of doit, once called

secVars  == <<file, sec, sec_args, sec_out, sec_got>>
symVars  == <<modules, sym_addr, sym_result>>
loadVars == <<fs, ld_pc, ld_modules, ld_pending, ld_done, ld_result>>
ptVars   == <<pt_pc, env, cx, sink, stack, last_rc, last_call, pt_result>>
elfVars  == <<elf_file, elf_result>>
peVars   == <<pe_env, pe_out, pe_result>>
vars     == <<secVars, symVars, loadVars, ptVars, elfVars, peVars>>

----------------------------------------------------------------------------
(* Bounds of the model *)

\* usize and u64 are modelled modulo UsizeMod
UsizeMod == 1024
\* symbol_name is queried with the addresses 0..MaxAddr and UsizeMod - 1
MaxAddr == 6

----------------------------------------------------------------------------
(* Result<T, Error> and Option<T> *)

Ok(v)  == [ok |-> TRUE,  err |-> "none", val |-> v]
Err(e) == [ok |-> FALSE, err |-> e,      val |-> <<>>]
Some(v) == <<v>>
None    == <<>>

Wrap(x) == x % UsizeMod

----------------------------------------------------------------------------
(* util.rs: Section *)

\* MemoryMap::len()
map_len(s) == Len(s.map)

\* `self.map.len() - self.align_size`
section_len(s) == map_len(s) - s.align_size

\* The cell the pointer map.data() + k designates (k counted from 0); `mem`
\* is what lies in memory behind the mapping.
MemAt(s, mem, k) ==
    IF k < Len(s.map) THEN s.map[k + 1]
    ELSE IF k - Len(s.map) < Len(mem) THEN mem[k - Len(s.map) + 1]
    ELSE 0

\* Section::ptr_at: the pointer is returned as its offset from map.data()
ptr_at(s, pos) ==
    IF pos >= section_len(s) THEN Err("Eof")
    ELSE Ok(s.align_size + pos)

\* Section::seek_at
seek_at(s, new_pos) ==
    LET len == map_len(s)
    IN  IF new_pos > len THEN [s EXCEPT !.cur = len]
        ELSE [s EXCEPT !.cur = new_pos]

\* mutant of read: the alignment correction is left out of the source
\* pointer
read_uncorrected(s, buflen, mem) ==
    IF s.cur = section_len(s) THEN [sec |-> s, n |-> 0, bytes |-> <<>>]
    ELSE
        LET section_available == Wrap(section_len(s) - s.cur)
            len == IF buflen > section_available THEN section_available ELSE buflen
        IN  [sec   |-> [s EXCEPT !.cur = s.cur + len],
             n     |-> len,
             bytes |-> [i \in 1..len |-> MemAt(s, mem, s.cur + i - 1)]]

\* <Section as Read>::read with a buffer of buflen cells.  The debug_assert
\* is not part of a release build; past it the subtraction wraps.
read(s, buflen, mem) ==
    IF s.cur = section_len(s) THEN [sec |-> s, n |-> 0, bytes |-> <<>>]
    ELSE
        LET section_available == Wrap(section_len(s) - s.cur)
            len == IF buflen > section_available THEN section_available ELSE buflen
            pos == s.align_size + s.cur
        IN  [sec   |-> [s EXCEPT !.cur = s.cur + len],
             n     |-> len,
             bytes |-> [i \in 1..len |-> MemAt(s, mem, pos + i - 1)]]

\* FillExact::fill_exact over a Section: the `while pos < len` loop.
\* (A value used more than once is bound by a singleton set, here and
\* below, so that it is computed once.)
RECURSIVE fill_exact_loop(_, _, _, _)
fill_exact_loop(s, len, pos, buf) ==
    IF pos < len THEN
        CHOOSE out \in
            {IF r.n = 0 THEN [sec |-> r.sec, res |-> Err("Eof")]
             ELSE fill_exact_loop(r.sec, len, pos + r.n, buf \o r.bytes) :
                r \in {read(s, len - pos, <<>>)}} : TRUE
    ELSE [sec |-> s, res |-> Ok(buf)]

fill_exact(s, len) == fill_exact_loop(s, len, 0, <<>>)

\* The cells from offset p of the mapping up to the first null
RECURSIVE CStrFrom(_, _)
CStrFrom(s, p) ==
    IF p >= Len(s.map) \/ s.map[p + 1] = 0 THEN <<>>
    ELSE <<s.map[p + 1]>> \o CStrFrom(s, p + 1)

\* Section::c_str_at: the null-terminated string at logical offset pos
c_str_at(s, pos) ==
    LET ptr == ptr_at(s, pos)
    IN  IF ptr.ok THEN Ok(CStrFrom(s, ptr.val)) ELSE ptr

----------------------------------------------------------------------------
(* elf.rs: Sym, read_sym *)

\* size_of::<Sym>() in cells: name, info, other, shndx, value, size
SymSize == 6

\* the Sym the cells of a filled buffer are
decode_sym(buf) ==
    [name  |-> buf[1], info  |-> buf[2], other |-> buf[3],
     shndx |-> buf[4], value |-> buf[5], size  |-> buf[6]]

\* read_struct!(read_sym, Sym): fill a Sym from the reader
read_sym(s) ==
    CHOOSE out \in
        {IF r.res.ok THEN [sec |-> r.sec, res |-> Ok(decode_sym(r.res.val))]
         ELSE r : r \in {fill_exact(s, SymSize)}} : TRUE

\* mutant of kind_ok: every kind qualifies
kind_ok_any(info) == TRUE

\* `sym.info & 0xf != 1 && sym.info & 0xf != 2` is false
kind_ok(info) == (info % 16) = 1 \/ (info % 16) = 2

\* `start_addr <= symaddr && symaddr < end_addr`
in_range(start_addr, end_addr, symaddr) ==
    start_addr <= symaddr /\ symaddr < end_addr

\* the arm `Err(Error::Eof) => break` is taken
eof_breaks(err) == err = "Eof"

RECURSIVE scan_symtab(_, _)

\* one turn of the `loop` of symbol_name: the match on read_sym's result r;
\* "return" carries the function's result, "break" leaves the loop
scan_entry(e, r, symaddr) ==
    LET e1 == [e EXCEPT !.symtab = r.sec]
    IN  IF r.res.ok THEN
            LET sym == r.res.val
                start_addr == Wrap(sym.value + e.base_address)
                end_addr == Wrap(start_addr + sym.size)
            IN  IF ~kind_ok(sym.info) THEN scan_symtab(e1, symaddr)
                ELSE IF in_range(start_addr, end_addr, symaddr) THEN
                    IF sym.size = 0 THEN scan_symtab(e1, symaddr)
                    ELSE CHOOSE out \in
                        {IF name.ok
                         THEN [elf |-> e1, out |-> "return", res |-> Ok(Some(name.val))]
                         ELSE [elf |-> e1, out |-> "return", res |-> Err(name.err)] :
                            name \in {c_str_at(e1.strtab, sym.name)}} : TRUE
                ELSE scan_symtab(e1, symaddr)
        ELSE IF eof_breaks(r.res.err)
             THEN [elf |-> e1, out |-> "break", res |-> Ok(None)]
             ELSE [elf |-> e1, out |-> "return", res |-> Err(r.res.err)]

\* the `loop` of symbol_name over one module
scan_symtab(e, symaddr) ==
    CHOOSE out \in
        {scan_entry(ee, r, symaddr) :
            ee \in {e}, r \in {read_sym(e.symtab)}} : TRUE

\* mutant of symbol_name_from: a module's scan starts where the cursor of
\* its symbol table is
RECURSIVE symbol_name_from_cursor(_, _, _)
symbol_name_from_cursor(mods, i, symaddr) ==
    IF i > Len(mods) THEN [modules |-> mods, res |-> Ok(None)]
    ELSE
        CHOOSE out \in
            {IF r.out = "return"
             THEN [modules |-> [mods EXCEPT ![i] = r.elf], res |-> r.res]
             ELSE symbol_name_from_cursor([mods EXCEPT ![i] = r.elf], i + 1, symaddr) :
                r \in {scan_symtab(mods[i], symaddr)}} : TRUE

\* the `for e in &mut self.modules` of symbol_name, from module i on
RECURSIVE symbol_name_from(_, _, _)
symbol_name_from(mods, i, symaddr) ==
    IF i > Len(mods) THEN [modules |-> mods, res |-> Ok(None)]
    ELSE
        CHOOSE out \in
            {IF r.out = "return"
             THEN [modules |-> [mods EXCEPT ![i] = r.elf], res |-> r.res]
             ELSE symbol_name_from([mods EXCEPT ![i] = r.elf], i + 1, symaddr) :
                r \in {scan_symtab(
                    [mods[i] EXCEPT !.symtab = seek_at(mods[i].symtab, 0)],
                    symaddr)}} : TRUE

Reverse(q) == [i \in 1..Len(q) |-> q[Len(q) + 1 - i]]

\* mutant of symbol_name: the modules are searched last to first
symbol_name_backwards(mods, symaddr) ==
    CHOOSE out \in
        {[modules |-> Reverse(r.modules), res |-> r.res] :
            r \in {symbol_name_from(Reverse(mods), 1, symaddr)}} : TRUE

\* SymbolTable::symbol_name
symbol_name(mods, symaddr) == symbol_name_from(mods, 1, symaddr)

----------------------------------------------------------------------------
(* util.rs: Section::new over a file of cells *)

\* MemoryMap::granularity(), scaled down
Granularity == 4
\* the file of SpecSection has FileLen cells
FileLen == 6
\* Section::new is called with offset in 0..MaxOffset and len in 0..MaxLen
MaxOffset == 5
MaxLen == 3
\* seek_at is called with 0..MaxPos, read with buffers of 0..MaxBuf cells
MaxPos == 8
MaxBuf == 3
\* reads past the end of the mapping are followed while cur <= MaxCur
MaxCur == 10

\* MemoryMap::new(min_len, [MapReadable, MapFd(fd), MapOffset(offset)]): the
\* cells of the file from `offset`, zero where the file has ended; a
\* zero-length mapping is refused.
memory_map_new(f, min_len, offset) ==
    IF min_len = 0 THEN Err("MmapError")
    ELSE Ok([i \in 1..min_len |->
                IF offset + i <= Len(f) THEN f[offset + i] ELSE 0])

\* Section::new
section_new(f, offset, len) ==
    LET align_size == offset % Granularity
        aligned_offset == offset - align_size
        map == memory_map_new(f, len + align_size, aligned_offset)
    IN  IF map.ok
        THEN Ok([map |-> map.val, align_size |-> align_size, cur |-> 0])
        ELSE map

NoSection == [map |-> <<>>, align_size |-> 0, cur |-> 0]
NoOut == [op |-> "none", arg |-> 0, ok |-> TRUE, n |-> 0, bytes |-> <<>>]

\* what may lie in memory behind a mapping
Garbage == {<<>>, <<7, 7, 7>>}

SecIdle ==
    /\ file = <<>>
    /\ sec = NoSection
    /\ sec_args = [offset |-> 0, len |-> 0]
    /\ sec_out = NoOut
    /\ sec_got = [pure |-> FALSE, bytes |-> <<>>]

\* a Section is alive: Section::new succeeded and no call has aborted
SecAlive == sec_out.op \in {"new", "seek_at", "read"} /\ sec_out.ok

\* the file SpecSection maps: FileLen distinct cells
TheFile == [i \in 1..FileLen |-> 10 + i]

SecInit ==
    /\ file = TheFile
    /\ \E offset \in 0..MaxOffset, len \in 0..MaxLen :
         LET r == section_new(file, offset, len)
         IN  /\ sec = IF r.ok THEN r.val ELSE NoSection
             /\ sec_args = [offset |-> offset, len |-> len]
             /\ sec_out = [op |-> "new", arg |-> offset, ok |-> r.ok,
                           n |-> 0, bytes |-> <<>>]
             /\ sec_got = [pure |-> r.ok, bytes |-> <<>>]

\* a call of Section::seek_at
SeekAt ==
    /\ SecAlive
    /\ \E pos \in 0..MaxPos :
         /\ sec' = seek_at(sec, pos)
         /\ sec_out' = [op |-> "seek_at", arg |-> pos, ok |-> TRUE,
                        n |-> seek_at(sec, pos).cur, bytes |-> <<>>]
    /\ sec_got' = [pure |-> FALSE, bytes |-> <<>>]
    /\ UNCHANGED <<file, sec_args, symVars, loadVars, ptVars, elfVars, peVars>>

\* a call of read with the cursor inside the section
ReadInside ==
    /\ SecAlive
    /\ sec.cur <= section_len(sec)
    /\ \E buflen \in 0..MaxBuf :
         LET r == read(sec, buflen, <<>>)
         IN  /\ sec' = r.sec
             /\ sec_out' = [op |-> "read", arg |-> buflen, ok |-> TRUE,
                            n |-> r.n, bytes |-> r.bytes]
             /\ sec_got' = IF sec_got.pure
                            THEN [sec_got EXCEPT !.bytes = @ \o r.bytes]
                            ELSE sec_got
    /\ UNCHANGED <<file, sec_args, symVars, loadVars, ptVars, elfVars, peVars>>

\* a call of read with the cursor past the section: the debug_assert fails
\* (debug build), or the copy reads behind the mapping, which faults or
\* yields whatever lies there (release build)
ReadOutside ==
    /\ SecAlive
    /\ sec.cur > section_len(sec)
    /\ \E buflen \in 0..MaxBuf :
         \/ /\ sec' = sec
            /\ sec_out' = [op |-> "read", arg |-> buflen, ok |-> FALSE,
                           n |-> 0, bytes |-> <<>>]
         \/ \E mem \in Garbage :
              LET r == read(sec, buflen, mem)
              IN  /\ r.sec.cur <= MaxCur
                  /\ sec' = r.sec
                  /\ sec_out' = [op |-> "read", arg |-> buflen, ok |-> TRUE,
                                 n |-> r.n, bytes |-> r.bytes]
    /\ UNCHANGED <<file, sec_args, sec_got, symVars, loadVars, ptVars, elfVars, peVars>>

----------------------------------------------------------------------------
(* idle values of the parts a state machine does not use *)

SymIdle ==
    /\ modules = <<>>
    /\ sym_addr = -1
    /\ sym_result = Ok(None)

LoadIdle ==
    /\ fs = <<>>
    /\ ld_pc = "idle"
    /\ ld_modules = <<>>
    /\ ld_pending = <<>>
    /\ ld_done = <<>>
    /\ ld_result = Ok(<<>>)

\* no Context yet, and no trace_callback call yet
NoContext == [depth |-> 0, depth_limit |-> 0, symbol_table |-> <<>>]
NoCall ==
    [invoked |-> FALSE, depth |-> 0, ip |-> 0, symaddr |-> 0,
     sink_len |-> 0, res |-> Ok(<<>>), queried |-> FALSE, table |-> <<>>]

PtIdle ==
    /\ pt_pc = "none"
    /\ env = [files |-> <<>>, objects |-> <<>>]
    /\ cx = NoContext
    /\ sink = <<>>
    /\ stack = <<>>
    /\ last_rc = 0
    /\ last_call = NoCall
    /\ pt_result = Ok(<<>>)

\* Elf::new and doit not called
NotCalled == [ok |-> FALSE, err |-> "not called", val |-> <<>>]

ElfIdle ==
    /\ elf_file = <<>>
    /\ elf_result = NotCalled

PeIdle ==
    /\ pe_env = [name_ok |-> FALSE, file |-> <<>>, snapshot |-> 0]
    /\ pe_out = <<>>
    /\ pe_result = NotCalled

----------------------------------------------------------------------------
(* SpecSection: a Section under arbitrary seek_at and read calls *)

SectionInit == SecInit /\ SymIdle /\ LoadIdle /\ PtIdle /\ ElfIdle /\ PeIdle

SectionNext == SeekAt \/ ReadInside \/ ReadOutside

SpecSection == SectionInit /\ [][SectionNext]_vars

\* C10 (as claimed): after any seek_at and read calls the cursor is at most
\* the logical length, the `len` the Section was created with; seek_at past
\* the logical length leaves the cursor exactly there and the next read
\* returns 0 cells.
C10_CursorWithinLogicalLength ==
    SecAlive =>
        /\ 0 <= sec.cur
        /\ sec.cur <= sec_args.len
        /\ (sec_out.op = "seek_at" /\ sec_out.arg > sec_args.len)
              => sec.cur = sec_args.len /\ read(sec, MaxBuf, <<>>).n = 0

\* the range [offset, offset + len) lies within the file
RangeInFile == sec_args.offset + sec_args.len <= Len(file)

----------------------------------------------------------------------------
(* SpecSym: SymbolTable::symbol_name over bounded symbol tables *)

\* a module's symbol table holds at most MaxSyms whole entries
MaxSyms == 2

\* the file layout of a Sym (x86_64): name, info, other, shndx, value, size
EncodeSym(sym) ==
    <<sym.name, sym.info, sym.other, sym.shndx, sym.value, sym.size>>

Sym(name, info, value, size) ==
    [name |-> name, info |-> info, other |-> 0, shndx |-> 1,
     value |-> value, size |-> size]

RECURSIVE EncodeSyms(_)
EncodeSyms(syms) ==
    IF syms = <<>> THEN <<>>
    ELSE EncodeSym(Head(syms)) \o EncodeSyms(Tail(syms))

\* An Elf whose file is `lead`, the symbol table cells, the string table
\* cells: each Section is made by Section::new at its file offset.
ElfOf(lead, symcells, strcells, base) ==
    LET f == lead \o symcells \o strcells
    IN  [base_address |-> base,
         symtab |-> section_new(f, Len(lead), Len(symcells)),
         strtab |-> section_new(f, Len(lead) + Len(symcells), Len(strcells))]

\* Elf::new succeeds only when both Sections could be mapped
ElfLoaded(e) == e.symtab.ok /\ e.strtab.ok
ElfVal(e) == [base_address |-> e.base_address,
              symtab |-> e.symtab.val, strtab |-> e.strtab.val]

\* string table of the first module: "\1", "\2"; of the second: "\3"
StrTab1 == <<1, 0, 2, 0>>
StrTab2 == <<3, 0>>

\* entries of the first module: two overlapping functions [2,4) and [3,5)
\* (info 0x12: global function), an entry of a kind that is skipped, an
\* entry of size 0, an entry whose name lies behind the string table, and
\* an object (info 0x11) whose range reaches the top of the address space
Syms1 ==
    {Sym(0, 18, 2, 2), Sym(2, 18, 3, 2), Sym(0, 0, 2, 2), Sym(2, 18, 3, 0),
     Sym(Len(StrTab1), 2, 5, 1), Sym(3, 17, UsizeMod - 1, 2)}

SymSeqs(S) == UNION {[1..n -> S] : n \in 0..MaxSyms}

\* a trailing record that is cut short
PartialRecord == <<0, 2, 0>>

\* the symbol table starts the file and ends with its last entry, or
\* starts at offset 1 and ends in a partial record
Layouts == {[lead |-> <<>>, tail |-> <<>>], [lead |-> <<9>>, tail |-> PartialRecord]}

Modules1 ==
    {ElfOf(l.lead, EncodeSyms(syms) \o l.tail, StrTab1, base) :
        l \in Layouts, syms \in SymSeqs(Syms1), base \in {0, 1}}

Modules2 ==
    {ElfOf(<<9>>, EncodeSyms(syms), StrTab2, base) :
        syms \in {<<Sym(0, 2, 2, 2)>>, <<Sym(0, 16, 2, 2)>>},
        base \in {0, 2}}

SymInit ==
    /\ \E e1 \in Modules1 :
         /\ ElfLoaded(e1)
         /\ \/ modules = <<ElfVal(e1)>>
            \/ \E e2 \in Modules2 : modules = <<ElfVal(e1), ElfVal(e2)>>
    /\ sym_addr = -1
    /\ sym_result = Ok(None)

QueryAddrs == (0..MaxAddr) \cup {UsizeMod - 1}

\* a call of SymbolTable::symbol_name
SymbolName ==
    /\ \E symaddr \in QueryAddrs :
         \E r \in {symbol_name(modules, symaddr)} :
             /\ modules' = r.modules
             /\ sym_addr' = symaddr
             /\ sym_result' = r.res
    /\ UNCHANGED <<secVars, loadVars, ptVars, elfVars, peVars>>

SymSpecInit == SecIdle /\ SymInit /\ LoadIdle /\ PtIdle /\ ElfIdle /\ PeIdle

SymNext == SymbolName

SpecSym == SymSpecInit /\ [][SymNext]_vars

----------------------------------------------------------------------------
(* What the claims say about symbol_name, stated over the file contents *)

\* the cells of a Section's logical range
DataOf(s) == SubSeq(s.map, s.align_size + 1, Len(s.map))

\* the number of whole entries of module m's symbol table, and entry k
NumEntries(m) == Len(DataOf(modules[m].symtab)) \div SymSize
Entry(m, k) ==
    LET d == DataOf(modules[m].symtab)
        o == (k - 1) * SymSize
    IN  [name |-> d[o + 1], info |-> d[o + 2], value |-> d[o + 5], size |-> d[o + 6]]

Entries == {<<m, k>> : m \in 1..Len(modules), k \in 1..MaxSyms + 1}
              \cap {mk \in (1..Len(modules)) \X (1..MaxSyms + 1) : mk[2] <= NumEntries(mk[1])}

\* the name offset of entry mk lies inside its module's string table
HasName(mk) == Entry(mk[1], mk[2]).name < Len(DataOf(modules[mk[1]].strtab))

\* the null-terminated string at that offset
NameOf(mk) ==
    LET d == DataOf(modules[mk[1]].strtab)
        o == Entry(mk[1], mk[2]).name
        n == CHOOSE n \in 0..(Len(d) - o) :
                /\ \A j \in 1..n : d[o + j] # 0
                /\ (o + n = Len(d) \/ d[o + n + 1] = 0)
    IN  SubSeq(d, o + 1, o + n)

\* non-zero size and a function or object kind tag
Candidate(mk) ==
    LET e == Entry(mk[1], mk[2])
    IN  e.size # 0 /\ (e.info % 16) \in {1, 2}

\* start <= a < end for the usize values start = value + base and
\* end = start + size
StartOf(mk) == (Entry(mk[1], mk[2]).value + modules[mk[1]].base_address) % UsizeMod
EndOf(mk) == (StartOf(mk) + Entry(mk[1], mk[2]).size) % UsizeMod
Covers(mk, a) == StartOf(mk) <= a /\ a < EndOf(mk)

\* scan order: module order, then file order
Before(x, y) == x[1] < y[1] \/ (x[1] = y[1] /\ x[2] < y[2])

\* the entries that qualify for address a, and the first of them
Matches(a) == {mk \in Entries : Candidate(mk) /\ Covers(mk, a)}
FirstMatch(a) == CHOOSE mk \in Matches(a) : \A o \in Matches(a) : o = mk \/ Before(mk, o)

Queried == sym_addr >= 0
Reported == sym_result.ok /\ sym_result.val # None

\* C1: the only entry covering a, with non-zero size and kind function or
\* object, gives a its name whenever start <= a < end, and a = end does not
\* resolve to it (start = value + base, end = start + size, the sums the
\* code forms).
C1_RangeResolves ==
    Queried =>
        \A mk \in Entries :
            Candidate(mk) =>
              /\ (/\ Covers(mk, sym_addr)
                  /\ \A o \in Entries \ {mk} : ~Covers(o, sym_addr))
                   => (HasName(mk) /\ sym_result = Ok(Some(NameOf(mk))))
              /\ (/\ sym_addr = EndOf(mk)
                  /\ \A o \in Entries : ~Covers(o, sym_addr))
                   => ~Reported

\* C2: a reported name is one name, that of the first matching entry in
\* scan order (first module, then file order); and the scan never goes past
\* a matching entry: when an entry matches, the call does not end in
\* "no symbol found"
C2_FirstMatchWins ==
    Queried =>
        /\ Reported =>
             /\ Len(sym_result.val) = 1
             /\ Matches(sym_addr) # {}
             /\ HasName(FirstMatch(sym_addr))
             /\ sym_result.val = Some(NameOf(FirstMatch(sym_addr)))
        /\ Matches(sym_addr) # {} => sym_result # Ok(None)

\* C2 witness: entries of both modules and two entries of the first module
\* match, under different names, and the first in scan order was reported
C2_Witness ==
    /\ Queried /\ Reported
    /\ \E x, y, z \in Matches(sym_addr) :
         /\ x[1] = 1 /\ y[1] = 1 /\ x[2] < y[2] /\ z[1] = 2
         /\ HasName(x) /\ HasName(y) /\ HasName(z)
         /\ NameOf(x) # NameOf(y) /\ NameOf(x) # NameOf(z)
         /\ sym_result.val = Some(NameOf(x))

\* the entry starts at or below a and, but for its size or kind, would
\* be the one a lies in
Touches(mk, a) == Covers(mk, a) \/ (Entry(mk[1], mk[2]).size = 0 /\ StartOf(mk) = a)

\* C3: a reported name is the name of an entry of non-zero size and kind
\* function or object covering the address; entries of size 0 or of another
\* kind are passed over, the scan going on behind them
C3_SkipsSizeZeroAndKind ==
    Queried =>
        /\ Reported =>
             \E mk \in Entries :
                 /\ Candidate(mk) /\ Covers(mk, sym_addr) /\ HasName(mk)
                 /\ sym_result.val = Some(NameOf(mk))
        /\ (\A mk \in Entries : Touches(mk, sym_addr) => ~Candidate(mk))
              => sym_result = Ok(None)

\* C3 witness: an entry of size 0 and an entry of a skipped kind were passed
\* over and the entry behind them was reported
C3_Witness ==
    /\ Queried /\ Reported
    /\ \E x, y, z \in Entries :
         /\ x[1] = 1 /\ y[1] = 1 /\ Before(x, z) /\ Before(y, z)
         /\ Entry(x[1], x[2]).size = 0 /\ StartOf(x) = sym_addr
         /\ (Entry(y[1], y[2]).info % 16) = 0 /\ Covers(y, sym_addr)
         /\ z = FirstMatch(sym_addr)
         /\ sym_result.val = Some(NameOf(z))

\* C4: symbol_name never returns Eof as a failure, neither when a symbol
\* table ends (in a partial record or not) nor when the name of the matched
\* entry is looked up; with no match in any module it returns Ok(None)
C4_EofNeverReturned ==
    Queried =>
        /\ ~(~sym_result.ok /\ sym_result.err = "Eof")
        /\ Matches(sym_addr) = {} => sym_result = Ok(None)

----------------------------------------------------------------------------
(* elf.rs: Ehdr, Shdr, Elf::new over a file of cells *)

\* size_of::<Ehdr>() in cells: ident (mag, class, data, version, pad,
\* nident), type_, machine, version, entry, phoff, shoff, flags, ehsize,
\* phentsize, phnum, shentsize, shnum, shstrndx
EhdrSize == 19
\* size_of::<Shdr>() in cells: name, type_, flags, addr, offset, size, link,
\* info, addralign, entsize
ShdrSize == 10

\* the fields of Ehdr and Shdr that Elf::new looks at
decode_ehdr(buf) == [shoff |-> buf[12], shnum |-> buf[18], shstrndx |-> buf[19]]
decode_shdr(buf) ==
    [name |-> buf[1], type_ |-> buf[2], offset |-> buf[5], size |-> buf[6],
     link |-> buf[7]]

\* a panic: it passes every `try!` and every `match` on a Result
Panic == [ok |-> FALSE, err |-> "panic", val |-> <<>>]
IsPanic(r) == ~r.ok /\ r.err = "panic"

\* file.seek(SeekFrom::Start(pos)) followed by file.fill_exact of a buffer
\* of len cells: a regular file gives the cells it has, and 0 at its end
file_fill_exact(cells, pos, len) ==
    IF len = 0 \/ pos + len <= Len(cells)
    THEN Ok(SubSeq(cells, pos + 1, pos + len))
    ELSE Err("Eof")

\* read_struct!(read_ehdr, Ehdr), the file being at position 0
read_ehdr(cells) ==
    CHOOSE out \in
        {IF r.ok THEN Ok(decode_ehdr(r.val)) ELSE r :
            r \in {file_fill_exact(cells, 0, EhdrSize)}} : TRUE

\* read_struct!(read_shdr, Shdr), the file being at position pos
read_shdr(cells, pos) ==
    CHOOSE out \in
        {IF r.ok THEN Ok(decode_shdr(r.val)) ELSE r :
            r \in {file_fill_exact(cells, pos, ShdrSize)}} : TRUE

\* `for i in 0 .. ehdr.shnum`: seek to shoff + i * size_of::<Shdr>(), read
RECURSIVE read_shdrs(_, _, _, _)
read_shdrs(cells, ehdr, i, shdrs) ==
    IF i >= ehdr.shnum THEN Ok(shdrs)
    ELSE CHOOSE out \in
        {IF r.ok THEN read_shdrs(cells, ehdr, i + 1, Append(shdrs, r.val))
         ELSE r :
            r \in {read_shdr(cells, Wrap(ehdr.shoff + i * ShdrSize))}} : TRUE

\* slice.get(index)
get(q, index) == IF index < Len(q) THEN Some(q[index + 1]) ELSE None

\* shdr_to_section
shdr_to_section(cells, shdr) == section_new(cells, shdr.offset, shdr.size)

SHT_SYMTAB == 2

\* the section names Elf::new knows, as cell strings
debug_names ==
    [debug_info |-> <<46, 1>>, debug_line |-> <<46, 2>>,
     debug_abbrev |-> <<46, 3>>, debug_ranges |-> <<46, 4>>,
     debug_str |-> <<46, 5>>]

\* `iter().position(|s| *s == 0).unwrap_or(0)`
position_of_null(q) ==
    IF \E j \in 1..Len(q) : q[j] = 0
    THEN (CHOOSE j \in 1..Len(q) : q[j] = 0 /\ \A k \in 1..(j - 1) : q[k] # 0) - 1
    ELSE 0

\* the Option<Section> variables of Elf::new before the loop
NoSections ==
    [symtab |-> None, strtab |-> None, debug_info |-> None,
     debug_line |-> None, debug_abbrev |-> None, debug_ranges |-> None,
     debug_str |-> None]

\* mutant of elf_symtab_shdr: a section of symbol-table type is ignored
\* once a symbol table is set
elf_symtab_shdr_once(cells, shdrs, shdr, acc) ==
    IF acc.symtab # None THEN Ok(acc)
    ELSE CHOOSE out \in
        {IF ~st.ok THEN st
         ELSE IF strtab_shdr = None THEN Err("ElfParseError")
         ELSE CHOOSE out2 \in
            {IF ~str.ok THEN str
             ELSE Ok([acc EXCEPT !.symtab = Some(st.val),
                                 !.strtab = Some(str.val)]) :
                str \in {shdr_to_section(cells, strtab_shdr[1])}} : TRUE :
            st \in {shdr_to_section(cells, shdr)},
            strtab_shdr \in {get(shdrs, shdr.link)}} : TRUE

\* the branch of the loop body for a section of symbol-table type
elf_symtab_shdr(cells, shdrs, shdr, acc) ==
    CHOOSE out \in
        {IF ~st.ok THEN st
         ELSE IF strtab_shdr = None THEN Err("ElfParseError")
         ELSE CHOOSE out2 \in
            {IF ~str.ok THEN str
             ELSE Ok([acc EXCEPT !.symtab = Some(st.val),
                                 !.strtab = Some(str.val)]) :
                str \in {shdr_to_section(cells, strtab_shdr[1])}} : TRUE :
            st \in {shdr_to_section(cells, shdr)},
            strtab_shdr \in {get(shdrs, shdr.link)}} : TRUE

\* the branch of the loop body for any other section: its name decides
elf_named_shdr(cells, shstr, shdr, acc) ==
    LET name_off == shdr.name
    IN  IF name_off > Len(shstr) THEN Panic
        ELSE CHOOSE out \in
            {IF \E k \in DOMAIN debug_names : debug_names[k] = name
             THEN CHOOSE out2 \in
                {IF ~section.ok THEN section
                 ELSE Ok([acc EXCEPT
                        ![CHOOSE k \in DOMAIN debug_names : debug_names[k] = name]
                            = Some(section.val)]) :
                    section \in {shdr_to_section(cells, shdr)}} : TRUE
             ELSE Ok(acc) :
                name \in {SubSeq(shstr, name_off + 1,
                            name_off + position_of_null(
                                SubSeq(shstr, name_off + 1, Len(shstr))))}} : TRUE

\* `for shdr in &shdrs`, from the i-th header on
RECURSIVE elf_sections(_, _, _, _, _)
elf_sections(cells, shdrs, shstr, i, acc) ==
    IF i > Len(shdrs) THEN Ok(acc)
    ELSE CHOOSE out \in
        {IF r.ok THEN elf_sections(cells, shdrs, shstr, i + 1, r.val) ELSE r :
            r \in {IF shdrs[i].type_ = SHT_SYMTAB
                   THEN elf_symtab_shdr(cells, shdrs, shdrs[i], acc)
                   ELSE elf_named_shdr(cells, shstr, shdrs[i], acc)}} : TRUE

\* mutant of elf_build: the Elf is built whether or not the symbol table
\* and the string table were found
elf_build_unchecked(cells, acc) ==
    Ok([file |-> cells, base_address |-> 0,
        symtab |-> IF acc.symtab = None THEN NoSection ELSE acc.symtab[1],
        strtab |-> IF acc.strtab = None THEN NoSection ELSE acc.strtab[1],
        debug_info |-> acc.debug_info, debug_line |-> acc.debug_line,
        debug_abbrev |-> acc.debug_abbrev,
        debug_ranges |-> acc.debug_ranges, debug_str |-> acc.debug_str])

\* the end of Elf::new: try_opt! on symtab and strtab, base_address 0
elf_build(cells, acc) ==
    IF acc.symtab = None \/ acc.strtab = None THEN Err("ElfParseError")
    ELSE Ok([file |-> cells, base_address |-> 0,
             symtab |-> acc.symtab[1], strtab |-> acc.strtab[1],
             debug_info |-> acc.debug_info, debug_line |-> acc.debug_line,
             debug_abbrev |-> acc.debug_abbrev,
             debug_ranges |-> acc.debug_ranges, debug_str |-> acc.debug_str])

\* Elf::new from the section headers on
elf_new_shdrs(cells, ehdr, shdrs) ==
    CHOOSE out \in
        {IF shstr_shdr = None THEN Err("ElfParseError")
         ELSE CHOOSE out2 \in
            {IF ~shstr.ok THEN shstr
             ELSE CHOOSE out3 \in
                {IF acc.ok THEN elf_build(cells, acc.val) ELSE acc :
                    acc \in {elf_sections(cells, shdrs, shstr.val, 1, NoSections)}} : TRUE :
                shstr \in {file_fill_exact(cells, shstr_shdr[1].offset,
                                           shstr_shdr[1].size)}} : TRUE :
            shstr_shdr \in {get(shdrs, ehdr.shstrndx)}} : TRUE

\* Elf::new
elf_new(cells) ==
    CHOOSE out \in
        {IF ~ehdr.ok THEN ehdr
         ELSE CHOOSE out2 \in
            {IF ~shdrs.ok THEN shdrs
             ELSE elf_new_shdrs(cells, ehdr.val, shdrs.val) :
                shdrs \in {read_shdrs(cells, ehdr.val, 0, <<>>)}} : TRUE :
            ehdr \in {read_ehdr(cells)}} : TRUE

----------------------------------------------------------------------------
(* ELF files as cells: header, section data, section header table *)

Ehdr(shoff, shnum, shstrndx) ==
    [i \in 1..EhdrSize |->
        CASE i = 12 -> shoff [] i = 18 -> shnum [] i = 19 -> shstrndx
          [] OTHER -> 0]

Shdr(name, type_, offset, size, link) ==
    <<name, type_, 0, 0, offset, size, link, 0, 0, 0>>

\* the section-header string table: "" at 0, ".debug_info" at 1
ShStr == <<0>> \o debug_names.debug_info \o <<0>>

\* what the fifth section header of an image is: absent, a section named
\* ".debug_info", or a section whose name offset lies behind ShStr
ExtraKinds == {"none", "debug_info", "name_behind"}

\* An ELF file with the sections null, .symtab (of type symtab_type, linked
\* to section 2), .strtab, .shstrtab and possibly a fifth over the string
\* table's cells.
ElfImage(symcells, strcells, symtab_type, extra) ==
    LET symoff == EhdrSize
        stroff == symoff + Len(symcells)
        shstroff == stroff + Len(strcells)
        shoff == shstroff + Len(ShStr)
        fifth == IF extra = "none" THEN <<>>
                 ELSE Shdr(IF extra = "debug_info" THEN 1 ELSE Len(ShStr) + 1,
                           1, stroff, Len(strcells), 0)
    IN  Ehdr(shoff, IF extra = "none" THEN 4 ELSE 5, 3)
          \o symcells \o strcells \o ShStr
          \o Shdr(0, 0, 0, 0, 0)
          \o Shdr(0, symtab_type, symoff, Len(symcells), 2)
          \o Shdr(0, 3, stroff, Len(strcells), 0)
          \o Shdr(0, 3, shstroff, Len(ShStr), 0)
          \o fifth

----------------------------------------------------------------------------
(* elf.rs: load_modules, phdr_callback *)

\* File::open: `files` maps a path to the cells of the file there, or to
\* NoFile
NoFile == <<-1>>
file_open(files, path) ==
    IF path \in DOMAIN files /\ files[path] # NoFile
    THEN Ok(files[path]) ELSE Err("IoError")

\* str::from_utf8 succeeds.  The paths of the model hold cells below 128
\* (ASCII) and the cell 255, which no UTF-8 string contains.
utf8_valid(bytes) == \A i \in 1..Len(bytes) : bytes[i] < 128

\* "/proc/self/exe"
ExePath == <<47, 101>>

\* dl_phdr_info: addr, and name as a null pointer or a C string
PhdrInfo(addr, null, name) == [addr |-> addr, null |-> null, name |-> name]

\* phdr_callback_inner
phdr_callback_inner(info, files) ==
    IF ~utf8_valid(info.name) THEN Panic
    ELSE CHOOSE out \in
        {IF ~f.ok THEN f
         ELSE CHOOSE out2 \in
            {IF ~elf.ok THEN elf
             ELSE Ok([elf.val EXCEPT !.base_address = info.addr]) :
                elf \in {elf_new(f.val)}} : TRUE :
            f \in {file_open(files, info.name)}} : TRUE

\* phdr_callback: the modules afterwards, the value returned to
\* dl_iterate_phdr, and whether the call panicked
phdr_callback(mods, info, files) ==
    IF info.null \/ info.name = <<>> THEN
        [modules |-> IF mods[1].base_address = 0
                     THEN [mods EXCEPT ![1].base_address = info.addr]
                     ELSE mods,
         ret |-> 0, panic |-> FALSE]
    ELSE CHOOSE out \in
        {IF IsPanic(r) THEN [modules |-> mods, ret |-> 0, panic |-> TRUE]
         ELSE IF r.ok
              THEN [modules |-> Append(mods, r.val), ret |-> 0, panic |-> FALSE]
              ELSE [modules |-> mods, ret |-> 0, panic |-> FALSE] :
            r \in {phdr_callback_inner(info, files)}} : TRUE

\* load_modules up to `vec![elf]`: open "/proc/self/exe", Elf::new
load_main(files) ==
    CHOOSE out \in
        {IF ~f.ok THEN f ELSE elf_new(f.val) :
            f \in {file_open(files, ExePath)}} : TRUE

\* dl_iterate_phdr(phdr_callback, modules) over the objects `infos`: it
\* calls back for each object while the callback returns 0
RECURSIVE dl_iterate_phdr(_, _, _)
dl_iterate_phdr(mods, infos, files) ==
    IF infos = <<>> THEN [modules |-> mods, panic |-> FALSE]
    ELSE CHOOSE out \in
        {IF r.panic THEN [modules |-> r.modules, panic |-> TRUE]
         ELSE IF r.ret # 0 THEN [modules |-> r.modules, panic |-> FALSE]
         ELSE dl_iterate_phdr(r.modules, Tail(infos), files) :
            r \in {phdr_callback(mods, Head(infos), files)}} : TRUE

\* load_modules, in a process whose loaded objects are `infos`
load_modules(files, infos) ==
    CHOOSE out \in
        {IF ~elf.ok THEN elf
         ELSE CHOOSE out2 \in
            {IF r.panic THEN Panic ELSE Ok(r.modules) :
                r \in {dl_iterate_phdr(<<elf.val>>, infos, files)}} : TRUE :
            elf \in {load_main(files)}} : TRUE

\* dl_iterate_phdr announces at most MaxObjects objects
MaxObjects == 3

LibA == <<47, 97>>
LibB == <<47, 98>>
\* a path that is not UTF-8
LibC == <<47, 255>>
\* an object without a file, as linux-vdso.so
Vdso == <<118>>

\* the files: each with one function [2, 4) under its own name
MainImage == ElfImage(EncodeSym(Sym(0, 18, 2, 2)), <<1, 0>>, SHT_SYMTAB, "none")
LibAImage == ElfImage(EncodeSym(Sym(0, 18, 2, 2)), <<2, 0>>, SHT_SYMTAB, "debug_info")
LibBImage == ElfImage(EncodeSym(Sym(0, 18, 2, 2)), <<3, 0>>, SHT_SYMTAB, "none")
LibCImage == ElfImage(EncodeSym(Sym(0, 18, 2, 2)), <<4, 0>>, SHT_SYMTAB, "none")
\* LibB without a section of symbol-table type, and with a fifth section
\* whose name offset lies behind the section-header string table
LibBNoSymtab == ElfImage(EncodeSym(Sym(0, 18, 2, 2)), <<3, 0>>, 1, "none")
LibBNameBehind == ElfImage(EncodeSym(Sym(0, 18, 2, 2)), <<3, 0>>, SHT_SYMTAB, "name_behind")
\* the main executable cut off inside its section header table
MainTruncated == SubSeq(MainImage, 1, Len(MainImage) - 1)

\* a main executable with more symbols: "\1" at [2, 4), a name that is not UTF-8 at [4, 6), an
\* entry at [6, 7) whose name offset lies behind the string table; the
\* function at [8, 10) has no symbol
TraceStrTab == <<1, 0, 255, 0>>
TraceMainImage ==
    ElfImage(EncodeSyms(<<Sym(0, 18, 2, 2), Sym(2, 18, 4, 2),
                          Sym(Len(TraceStrTab), 18, 6, 1)>>),
             TraceStrTab, SHT_SYMTAB, "none")

\* the file systems load_modules runs over
FileSystems ==
    {[p \in {ExePath, LibA, LibB, LibC} |->
        CASE p = ExePath -> exe [] p = LibA -> a [] p = LibB -> b
          [] OTHER -> LibCImage] :
        exe \in {MainImage, MainTruncated, NoFile},
        a \in {LibAImage, NoFile},
        b \in {LibBImage, LibBNoSymtab, LibBNameBehind}}

\* the callbacks dl_iterate_phdr may make
PhdrInfos ==
    {PhdrInfo(0, TRUE, <<>>), PhdrInfo(4, TRUE, <<>>), PhdrInfo(9, FALSE, <<>>),
     PhdrInfo(4, FALSE, LibA), PhdrInfo(9, FALSE, LibB),
     PhdrInfo(5, FALSE, LibC), PhdrInfo(7, FALSE, Vdso)}

LoadInit ==
    /\ fs \in FileSystems
    /\ ld_pc = "start"
    /\ ld_modules = <<>>
    /\ ld_pending \in UNION {[1..n -> PhdrInfos] : n \in 0..MaxObjects}
    /\ ld_done = <<>>
    /\ ld_result = Ok(<<>>)

\* load_modules up to the call of dl_iterate_phdr
LoadStart ==
    /\ ld_pc = "start"
    /\ \E elf \in {load_main(fs)} :
         IF IsPanic(elf) THEN
            /\ ld_pc' = "panicked"
            /\ UNCHANGED <<ld_modules, ld_result>>
         ELSE IF ~elf.ok THEN
            /\ ld_pc' = "returned" /\ ld_result' = elf
            /\ UNCHANGED ld_modules
         ELSE
            /\ ld_pc' = "iterating" /\ ld_modules' = <<elf.val>>
            /\ UNCHANGED ld_result
    /\ UNCHANGED <<fs, ld_pending, ld_done, secVars, symVars, ptVars, elfVars, peVars>>

\* dl_iterate_phdr calls phdr_callback for the next object; it goes on
\* while the callback returns 0
PhdrCallback ==
    /\ ld_pc = "iterating"
    /\ ld_pending # <<>>
    /\ \E r \in {phdr_callback(ld_modules, Head(ld_pending), fs)} :
         /\ ld_modules' = r.modules
         /\ ld_done' = Append(ld_done, Head(ld_pending))
         /\ ld_pending' = IF r.ret = 0 THEN Tail(ld_pending) ELSE <<>>
         /\ ld_pc' = IF r.panic THEN "panicked" ELSE "iterating"
    /\ UNCHANGED <<fs, ld_result, secVars, symVars, ptVars, elfVars, peVars>>

\* dl_iterate_phdr returns and load_modules returns Ok(modules)
LoadReturn ==
    /\ ld_pc = "iterating"
    /\ ld_pending = <<>>
    /\ ld_pc' = "returned"
    /\ ld_result' = Ok(ld_modules)
    /\ UNCHANGED <<fs, ld_modules, ld_pending, ld_done, secVars, symVars, ptVars, elfVars, peVars>>

LoadSpecInit == SecIdle /\ SymIdle /\ LoadInit /\ PtIdle /\ ElfIdle /\ PeIdle

LoadNext == LoadStart \/ PhdrCallback \/ LoadReturn

SpecLoad == LoadSpecInit /\ [][LoadNext]_vars

----------------------------------------------------------------------------
(* uw.rs: the unwinder *)

_URC_NO_REASON == 0
_URC_FAILURE == 9

\* the functions the unwinder knows, as [lo, hi) address ranges
Functions ==
    {[lo |-> 2, hi |-> 4], [lo |-> 4, hi |-> 6], [lo |-> 6, hi |-> 7],
     [lo |-> 8, hi |-> 10], [lo |-> 18, hi |-> 20]}

\* _Unwind_FindEnclosingFunction: the start of the function pc lies in, or
\* null
_Unwind_FindEnclosingFunction(pc) ==
    IF \E f \in Functions : f.lo <= pc /\ pc < f.hi
    THEN (CHOOSE f \in Functions : f.lo <= pc /\ pc < f.hi).lo
    ELSE 0

----------------------------------------------------------------------------
(* lib.rs: print_traceback, trace_callback, print_trace_info *)

\* `depth_limit: 10`
depth_limit == 10

\* what the writer receives: the pieces of a line, as tokens
Token(k, d, l, text, e) == [k |-> k, d |-> d, l |-> l, text |-> text, e |-> e]
\* "[depth {}/{}] "
PrefixToken(d, l) == Token("prefix", d, l, <<>>, "none")
\* "`{}`"
NameToken(name) == Token("name", 0, 0, name, "none")
\* "(???)"
PlaceholderToken == Token("placeholder", 0, 0, <<>>, "none")
\* "\n"
NewlineToken == Token("newline", 0, 0, <<>>, "none")
\* "error during print_trace_info: {:?}\n"
ErrorToken(e) == Token("error", 0, 0, <<>>, e)

\* write!(cx.writer, ...): the writer takes the token, or the write fails
write(out, token, fails) ==
    IF fails THEN [sink |-> out, res |-> Err("IoError")]
    ELSE [sink |-> Append(out, token), res |-> Ok(<<>>)]

\* print_trace_info from the match on symbol_name's value on: the name or
\* placeholder, then the newline; wfail is the write that fails, if any
print_name(c, out, name, wfail) ==
    CHOOSE out1 \in
        {IF ~w2.res.ok THEN [cx |-> c, sink |-> w2.sink, res |-> w2.res]
         ELSE CHOOSE out2 \in
            {[cx |-> c, sink |-> w3.sink, res |-> w3.res] :
                w3 \in {write(w2.sink, NewlineToken, wfail = 3)}} : TRUE :
            w2 \in {IF name # None
                    THEN IF utf8_valid(name[1])
                         THEN write(out, NameToken(name[1]), wfail = 2)
                         ELSE [sink |-> out, res |-> Ok(<<>>)]
                    ELSE write(out, PlaceholderToken, wfail = 2)}} : TRUE

\* mutant of print_trace_info: no early return for the lookup address 0
print_trace_info_unguarded(c, out, ip, symaddr, wfail) ==
    CHOOSE out1 \in
        {IF ~w1.res.ok
         THEN [cx |-> c, sink |-> w1.sink, res |-> w1.res, queried |-> FALSE]
         ELSE CHOOSE out2 \in
            {IF ~r.res.ok
             THEN [cx |-> [c EXCEPT !.symbol_table = r.modules],
                   sink |-> w1.sink, res |-> r.res, queried |-> TRUE]
             ELSE [queried |-> TRUE] @@
                  print_name([c EXCEPT !.symbol_table = r.modules],
                             w1.sink, r.res.val, wfail) :
                r \in {symbol_name(c.symbol_table, symaddr)}} : TRUE :
            w1 \in {write(out, PrefixToken(c.depth, c.depth_limit),
                          wfail = 1)}} : TRUE

\* print_trace_info; `queried` tells whether symbol_name was called
print_trace_info(c, out, ip, symaddr, wfail) ==
    IF symaddr = 0
    THEN [cx |-> c, sink |-> out, res |-> Ok(<<>>), queried |-> FALSE]
    ELSE CHOOSE out1 \in
        {IF ~w1.res.ok
         THEN [cx |-> c, sink |-> w1.sink, res |-> w1.res, queried |-> FALSE]
         ELSE CHOOSE out2 \in
            {IF ~r.res.ok
             THEN [cx |-> [c EXCEPT !.symbol_table = r.modules],
                   sink |-> w1.sink, res |-> r.res, queried |-> TRUE]
             ELSE [queried |-> TRUE] @@
                  print_name([c EXCEPT !.symbol_table = r.modules],
                             w1.sink, r.res.val, wfail) :
                r \in {symbol_name(c.symbol_table, symaddr)}} : TRUE :
            w1 \in {write(out, PrefixToken(c.depth, c.depth_limit),
                          wfail = 1)}} : TRUE

\* mutant of depth_reached: the walk stops one frame late
depth_reached_late(depth, limit) == depth > limit

\* `cx.depth == cx.depth_limit`
depth_reached(depth, limit) == depth = limit

\* the ip trace_callback goes on with: a non-signalling frame's ip is the
\* address after the call
adjusted_ip(frame) ==
    IF frame.ip # 0 /\ frame.ip_before_insn = 0
    THEN Wrap(frame.ip - 1) ELSE frame.ip

\* trace_callback for one frame; efail: the write of the error line fails
trace_callback(c, out, frame, wfail, efail) ==
    LET ip == adjusted_ip(frame)
        symaddr == _Unwind_FindEnclosingFunction(ip)
    IN  IF depth_reached(c.depth, c.depth_limit)
        THEN [cx |-> c, sink |-> out, rc |-> _URC_FAILURE, res |-> Ok(<<>>),
              queried |-> FALSE]
        ELSE CHOOSE out1 \in
            {IF r.res.ok
             THEN [cx |-> [r.cx EXCEPT !.depth = Wrap(r.cx.depth + 1)],
                   sink |-> r.sink, rc |-> _URC_NO_REASON, res |-> r.res,
                   queried |-> r.queried]
             ELSE [cx |-> r.cx,
                   sink |-> write(r.sink, ErrorToken(r.res.err), efail).sink,
                   rc |-> _URC_FAILURE, res |-> r.res,
                   queried |-> r.queried] :
                r \in {print_trace_info(c, out, ip, symaddr, wfail)}} : TRUE

\* SymbolTable::new
symbol_table_new(files, infos) == load_modules(files, infos)

----------------------------------------------------------------------------
(* Spec: print_traceback in a process with a call stack *)

\* stacks of up to MaxShortStack arbitrary frames, and stacks of
\* depth_limit - 1 .. depth_limit + MaxExtra frames that resolve
MaxShortStack == 2
MaxExtra == 2

Files(exe, a, b) ==
    [p \in {ExePath, LibA, LibB, LibC} |->
        CASE p = ExePath -> exe [] p = LibA -> a [] p = LibB -> b
          [] OTHER -> LibCImage]

\* the processes print_traceback runs in: the main executable at 0 and LibA
\* at 16; the same with LibA's file gone; a main executable that cannot be
\* opened or is cut off; a loaded object whose path is not UTF-8; a loaded
\* object with a section name offset behind its string table
Processes ==
    {[files |-> Files(TraceMainImage, LibAImage, LibBImage),
      objects |-> <<PhdrInfo(0, TRUE, <<>>), PhdrInfo(16, FALSE, LibA)>>],
     [files |-> Files(TraceMainImage, NoFile, LibBImage),
      objects |-> <<PhdrInfo(0, FALSE, <<>>), PhdrInfo(7, FALSE, Vdso),
                    PhdrInfo(16, FALSE, LibA)>>],
     [files |-> Files(NoFile, LibAImage, LibBImage),
      objects |-> <<PhdrInfo(0, TRUE, <<>>)>>],
     [files |-> Files(MainTruncated, LibAImage, LibBImage),
      objects |-> <<PhdrInfo(0, TRUE, <<>>)>>],
     [files |-> Files(TraceMainImage, LibAImage, LibBImage),
      objects |-> <<PhdrInfo(0, TRUE, <<>>), PhdrInfo(32, FALSE, LibC)>>],
     [files |-> Files(TraceMainImage, LibAImage, LibBNameBehind),
      objects |-> <<PhdrInfo(0, TRUE, <<>>), PhdrInfo(32, FALSE, LibB)>>]}

Frame(ip, ip_before_insn) == [ip |-> ip, ip_before_insn |-> ip_before_insn]

\* frames whose line is written whole unless a write fails: in "\1" (after
\* a call and at a signal), in the function with the non-UTF-8 name, in the
\* function without symbol, a null ip, an ip in no function, in LibA's "\2",
\* and the address after a call that ends the function before [2, 4)
GoodFrames ==
    {Frame(3, 0), Frame(3, 1), Frame(5, 1), Frame(9, 1), Frame(0, 0),
     Frame(12, 1), Frame(19, 0), Frame(2, 0)}
\* and a frame in the function whose name lookup fails
Frames == GoodFrames \cup {Frame(6, 1)}

Stacks ==
    UNION {[1..n -> Frames] : n \in 0..MaxShortStack}
    \cup {[i \in 1..n |-> IF i % 3 = 0 THEN fb ELSE fa] :
            n \in (depth_limit - 1)..(depth_limit + MaxExtra),
            fa \in GoodFrames, fb \in GoodFrames}

PtInit ==
    /\ pt_pc = "idle"
    /\ env \in Processes
    /\ cx = NoContext
    /\ sink = <<>>
    /\ stack \in Stacks
    /\ last_rc = _URC_NO_REASON
    /\ last_call = NoCall
    /\ pt_result = Ok(<<>>)

\* print_traceback up to the call of _Unwind_Backtrace
PrintTraceback ==
    /\ pt_pc = "idle"
    /\ \E st \in {symbol_table_new(env.files, env.objects)} :
         IF IsPanic(st) THEN
            /\ pt_pc' = "panicked"
            /\ UNCHANGED <<cx, pt_result>>
         ELSE IF ~st.ok THEN
            /\ pt_pc' = "returned" /\ pt_result' = st
            /\ UNCHANGED cx
         ELSE
            /\ pt_pc' = "walking"
            /\ cx' = [depth |-> 0, depth_limit |-> depth_limit,
                      symbol_table |-> st.val]
            /\ UNCHANGED pt_result
    /\ UNCHANGED <<env, sink, stack, last_rc, last_call,
                   secVars, symVars, loadVars, elfVars, peVars>>

\* _Unwind_Backtrace calls trace_callback for the next frame; it goes on
\* while the callback returns _URC_NO_REASON
TraceCallback ==
    /\ pt_pc = "walking"
    /\ stack # <<>>
    /\ \E wfail \in 0..3, efail \in BOOLEAN :
         \E r \in {trace_callback(cx, sink, Head(stack), wfail, efail)} :
            /\ cx' = r.cx
            /\ sink' = r.sink
            /\ last_rc' = r.rc
            /\ last_call' =
                 [invoked |-> TRUE, depth |-> cx.depth,
                  ip |-> adjusted_ip(Head(stack)),
                  symaddr |-> _Unwind_FindEnclosingFunction(
                                  adjusted_ip(Head(stack))),
                  sink_len |-> Len(sink), res |-> r.res,
                  queried |-> r.queried, table |-> cx.symbol_table]
            /\ pt_pc' = IF r.rc = _URC_NO_REASON THEN "walking" ELSE "stopped"
    /\ stack' = Tail(stack)
    /\ UNCHANGED <<env, pt_result, secVars, symVars, loadVars, elfVars, peVars>>

\* _Unwind_Backtrace returns, at the end of the stack or stopped by the
\* callback, and print_traceback returns Ok(())
PrintTracebackReturn ==
    /\ pt_pc = "stopped" \/ (pt_pc = "walking" /\ stack = <<>>)
    /\ pt_pc' = "returned"
    /\ pt_result' = Ok(<<>>)
    /\ UNCHANGED <<env, cx, sink, stack, last_rc, last_call,
                   secVars, symVars, loadVars, elfVars, peVars>>

Init == SecIdle /\ SymIdle /\ LoadIdle /\ PtInit /\ ElfIdle /\ PeIdle

Next == PrintTraceback \/ TraceCallback \/ PrintTracebackReturn

Spec == Init /\ [][Next]_vars

----------------------------------------------------------------------------
(* What the claims say about load_modules, stated over the files and the
   callbacks *)

\* the callbacks of the whole iteration
Callbacks == ld_done \o ld_pending

\* the callback announces the main executable: null or empty name
IsMainInfo(info) == info.null \/ info.name = <<>>

\* a file that is there and is a whole ELF file with a symbol table and a
\* string table
WellFormed == {MainImage, TraceMainImage, LibAImage, LibBImage, LibCImage}
CanLoadIn(files, path) == path \in DOMAIN files /\ files[path] \in WellFormed
CanLoad(path) == CanLoadIn(fs, path)

\* the callback announces a named object that can be opened and loaded
IsLoadableInfo(info) == ~IsMainInfo(info) /\ CanLoad(info.name)

load_finished == ld_pc \in {"returned", "panicked"}

\* C5: load_modules returns a failure exactly when the main executable
\* cannot be opened and loaded; otherwise it returns the main executable
\* followed by exactly the named objects that can be opened and loaded, in
\* callback order, each at the base address of its callback
C5_MainThenLoadableObjects ==
    load_finished =>
        /\ ld_pc = "returned"
        /\ ld_result.ok <=> CanLoad(ExePath)
        /\ ld_result.ok =>
             LET named == SelectSeq(Callbacks, IsLoadableInfo)
             IN  /\ Len(ld_result.val) = 1 + Len(named)
                 /\ ld_result.val[1].file = fs[ExePath]
                 /\ \A i \in 1..Len(named) :
                      /\ ld_result.val[i + 1].file = fs[named[i].name]
                      /\ ld_result.val[i + 1].base_address = named[i].addr

\* C6: once a callback with a null or empty name has been made, the main
\* executable's base address is the address of the first such callback,
\* whatever the addresses are
C6_BaseAddressWrittenOnce ==
    LET mains == SelectSeq(ld_done, IsMainInfo)
    IN  (ld_modules # <<>> /\ mains # <<>>) =>
            ld_modules[1].base_address = mains[1].addr

----------------------------------------------------------------------------
(* What the claims say about print_traceback, stated over the sink *)

\* the frame lines written so far: each starts with one prefix
FrameLines == Cardinality({i \in 1..Len(sink) : sink[i].k = "prefix"})

\* what the last trace_callback call wrote
LastWritten == SubSeq(sink, last_call.sink_len + 1, Len(sink))

\* C7: a callback invoked with depth = depth_limit returns _URC_FAILURE and
\* writes nothing, and nothing is written after it; a callback invoked below
\* the limit that meets no failure returns _URC_NO_REASON and counts the
\* frame; at most depth_limit frame lines are written and depth never
\* exceeds depth_limit
C7_DepthLimitStops ==
    /\ cx.depth <= cx.depth_limit
    /\ FrameLines <= depth_limit
    /\ (last_call.invoked /\ last_call.depth = depth_limit) =>
          /\ last_rc = _URC_FAILURE
          /\ Len(sink) = last_call.sink_len
          /\ pt_pc \in {"stopped", "returned"}
    /\ (last_call.invoked /\ last_call.depth < depth_limit /\ last_call.res.ok) =>
          /\ last_rc = _URC_NO_REASON
          /\ cx.depth = last_call.depth + 1

\* C7 witness: depth_limit lines are written, the callback was invoked at
\* depth_limit and has stopped the walk, and frames are left unvisited
C7_Witness ==
    /\ pt_pc = "stopped"
    /\ last_call.invoked /\ last_call.depth = depth_limit
    /\ last_call.symaddr # 0
    /\ last_rc = _URC_FAILURE
    /\ FrameLines = depth_limit
    /\ stack # <<>>

\* C8: a callback for a frame with a non-zero lookup address whose
\* resolution and writes do not fail writes the prefix with its depth and
\* the limit, then a quoted name or the placeholder, then a newline
C8_LineFormat ==
    (last_call.invoked /\ last_call.symaddr # 0 /\ last_rc = _URC_NO_REASON) =>
        /\ Len(LastWritten) = 3
        /\ LastWritten[1] = PrefixToken(last_call.depth, depth_limit)
        /\ LastWritten[2].k \in {"name", "placeholder"}
        /\ LastWritten[3] = NewlineToken

pt_finished == pt_pc \in {"returned", "panicked"}

\* C9: print_traceback ends by returning; it returns a failure exactly when
\* the Symbol Table cannot be constructed (the main executable cannot be
\* opened and loaded), and then no callback was invoked and nothing was
\* written; a callback that meets a failure returns _URC_FAILURE, leaves
\* depth as it was and ends the walk, and print_traceback returns success
C9_FailureIffNoSymbolTable ==
    /\ pt_finished =>
          /\ pt_pc = "returned"
          /\ ~pt_result.ok <=> ~CanLoadIn(env.files, ExePath)
    /\ (pt_pc = "returned" /\ ~pt_result.ok) =>
          ~last_call.invoked /\ sink = <<>>
    /\ (last_call.invoked /\ ~last_call.res.ok) =>
          /\ last_rc = _URC_FAILURE
          /\ cx.depth = last_call.depth
          /\ pt_pc \in {"stopped", "returned"}
          /\ pt_pc = "returned" => pt_result.ok

\* C14: a callback invoked below the depth limit for a frame whose lookup
\* address is 0 writes nothing, does not call symbol_name and leaves the
\* Symbol Table as it was, counts the frame and returns _URC_NO_REASON, so
\* that the walk goes on
C14_AddressZeroCounts ==
    (last_call.invoked /\ last_call.depth < depth_limit /\ last_call.symaddr = 0) =>
        /\ Len(sink) = last_call.sink_len
        /\ ~last_call.queried
        /\ cx.symbol_table = last_call.table
        /\ cx.depth = last_call.depth + 1
        /\ last_rc = _URC_NO_REASON
        /\ pt_pc # "stopped"

\* C14 witness: the walk has counted more frames than it has written
\* lines, the last of them a frame with lookup address 0 in a process
\* whose Symbol Table has a module
C14_Witness ==
    /\ last_call.invoked /\ last_call.depth < depth_limit
    /\ last_call.symaddr = 0
    /\ cx.symbol_table # <<>>
    /\ last_rc = _URC_NO_REASON
    /\ cx.depth = last_call.depth + 1
    /\ FrameLines > 0
    /\ FrameLines < cx.depth

\* the Symbol Table as SymbolTable::new builds it from the same modules:
\* every Section's cursor is 0
Fresh(mods) ==
    [i \in 1..Len(mods) |->
        [mods[i] EXCEPT !.symtab.cur = 0, !.strtab.cur = 0]]

\* C17: whatever calls came before and wherever they left the cursors, a
\* symbol_name call returns what it returns on the freshly built Symbol
\* Table, and it changes nothing of the table but the cursors: the modules,
\* their order, their base addresses and their Sections' cells stay
C17_QueryIndependence ==
    [][/\ sym_result' = symbol_name(Fresh(modules), sym_addr').res
       /\ Fresh(modules') = Fresh(modules)]_vars

\* C17 witness: the second module's symbol table has been scanned by an
\* earlier call, which left the first module's cursor at the end of its
\* entries, and the last call has found its name in the first module
C17_Witness ==
    /\ Queried /\ Reported
    /\ Len(modules) = 2
    /\ modules[2].symtab.cur # 0
    /\ NumEntries(1) = MaxSyms
    /\ FirstMatch(sym_addr) = <<1, 2>>
    /\ modules[1].symtab.cur = MaxSyms * SymSize
    /\ sym_result = symbol_name(Fresh(modules), sym_addr).res

----------------------------------------------------------------------------
(* SpecElf: Elf::new on a family of ELF files *)

\* at most MaxSymtabs section headers of symbol-table type in a file
MaxSymtabs == 2

\* symbol table cells of one entry each, told apart by the entry's value
SymCellsA == EncodeSyms(<<Sym(0, 18, 2, 2)>>)
SymCellsB == EncodeSyms(<<Sym(2, 18, 3, 2)>>)

\* a section-header string table whose last name has no terminating null:
\* "" at 0, ".debug_info" at 1, ".debug_line" cut short at 4
OpenShStr == <<0>> \o debug_names.debug_info \o <<0>> \o debug_names.debug_line

\* An ELF file with the sections .shstrtab, .strtab (StrTab1), a second
\* string table (StrTab2), `symtabs` sections of symbol-table type and
\* possibly a further section; `cut` cells are missing at its end.
ElfFile(symtabs, further, shstrndx, cut) ==
    LET offA == EhdrSize
        offB == offA + Len(SymCellsA)
        off1 == offB + Len(SymCellsB)
        off2 == off1 + Len(StrTab1)
        offshstr == off2 + Len(StrTab2)
        shoff == offshstr + Len(OpenShStr)
        shnum == 3 + Len(symtabs) + (IF further.kind = "none" THEN 0 ELSE 1)
        link(k) == CASE k = "str1" -> 1 [] k = "str2" -> 2 [] OTHER -> shnum
        symtab(k) ==
            CASE k[1] = "A" -> Shdr(0, SHT_SYMTAB, offA, Len(SymCellsA), link(k[2]))
              [] k[1] = "B" -> Shdr(0, SHT_SYMTAB, offB, Len(SymCellsB), link(k[2]))
              [] OTHER -> Shdr(0, SHT_SYMTAB, 0, 0, link(k[2]))
        RECURSIVE symtab_shdrs(_)
        symtab_shdrs(i) ==
            IF i > Len(symtabs) THEN <<>>
            ELSE symtab(symtabs[i]) \o symtab_shdrs(i + 1)
        further_shdr ==
            CASE further.kind = "none" -> <<>>
              [] further.kind = "empty" -> Shdr(further.name, 1, 0, 0, 0)
              [] OTHER -> Shdr(further.name, 1, off1, Len(StrTab1), 0)
        ndx == CASE shstrndx = "shstr" -> 0 [] shstrndx = "str1" -> 1
                 [] shstrndx = "behind" -> shnum [] OTHER -> shnum + 1
        cells == Ehdr(shoff, shnum, ndx)
                   \o SymCellsA \o SymCellsB \o StrTab1 \o StrTab2 \o OpenShStr
                   \o Shdr(0, 3, offshstr, Len(OpenShStr), 0)
                   \o Shdr(0, 3, off1, Len(StrTab1), 0)
                   \o Shdr(0, 3, off2, Len(StrTab2), 0)
                   \o symtab_shdrs(1)
                   \o further_shdr
    IN  SubSeq(cells, 1, Len(cells) - cut)

\* The files Elf::new is called with.
\* A section header of symbol-table type covers the cells "A", "B", or "E",
\* an empty section at a mapping boundary, and its link is the section of
\* StrTab1, of StrTab2, or an index behind the table.
\* A further section lies over StrTab1's cells; its name offset points to
\* "", ".debug_info", the name without a terminating null, the end of the
\* string table, or behind it; "empty" is a section named ".debug_info" of
\* size 0 at a mapping boundary.
\* e_shstrndx points to the string table section, to StrTab1's section, or
\* behind the table.
ElfInit ==
    /\ SecIdle /\ SymIdle /\ LoadIdle /\ PtIdle /\ PeIdle
    /\ elf_file \in
          {ElfFile(symtabs, further, shstrndx, cut) :
              symtabs \in UNION {[1..n ->
                  ({"A", "B"} \X {"str1", "str2", "behind"}) \cup {<<"E", "str1">>}] :
                      n \in 0..MaxSymtabs},
              further \in
                  {[kind |-> "none", name |-> 0], [kind |-> "empty", name |-> 1]}
                    \cup {[kind |-> "named", name |-> n] :
                            n \in 0..(Len(OpenShStr) + 1)},
              shstrndx \in {"shstr", "str1", "behind", "far"},
              cut \in {0, 1}}
    /\ elf_result = NotCalled

\* Elf::new(file)
ElfNew ==
    /\ elf_result = NotCalled
    /\ elf_result' = elf_new(elf_file)
    /\ UNCHANGED <<elf_file, secVars, symVars, loadVars, ptVars, peVars>>

SpecElf == ElfInit /\ [][ElfNew]_vars

\* ---- what the file says, read off its cells
elf_called == elf_result # NotCalled

\* the ELF header's fields
FileEhdr == decode_ehdr(SubSeq(elf_file, 1, EhdrSize))

\* the i-th section header (from 0) lies within the file
ShdrInFile(i) == FileEhdr.shoff + (i + 1) * ShdrSize <= Len(elf_file)

\* all e_shnum section headers lie within the file
ShdrsInFile == \A i \in 0..(FileEhdr.shnum - 1) : ShdrInFile(i)

\* the i-th section header (from 0)
FileShdr(i) ==
    decode_shdr(SubSeq(elf_file, FileEhdr.shoff + i * ShdrSize + 1,
                       FileEhdr.shoff + (i + 1) * ShdrSize))

\* the indices of the section headers of symbol-table type
SymtabIndices ==
    {i \in 0..(FileEhdr.shnum - 1) : ShdrInFile(i) /\ FileShdr(i).type_ = SHT_SYMTAB}

FirstSymtab == CHOOSE i \in SymtabIndices : \A j \in SymtabIndices : i <= j
LastSymtab == CHOOSE i \in SymtabIndices : \A j \in SymtabIndices : j <= i

\* the Section Section::new gives for the i-th section header
SectionOf(i) == section_new(elf_file, FileShdr(i).offset, FileShdr(i).size).val

\* the module's Sections are those of the i-th section header and of the
\* section header its link names
SectionsFrom(i) ==
    /\ elf_result.val.symtab = SectionOf(i)
    /\ elf_result.val.strtab = SectionOf(FileShdr(i).link)

\* C12: when the section-header table holds more than one section of
\* symbol-table type, the module's symbol-table Section is built from the
\* first of them in section-header order and its string-table Section from
\* the section that first one's link names
C12_FirstSymtabWins ==
    (elf_called /\ elf_result.ok /\ Cardinality(SymtabIndices) > 1) =>
        SectionsFrom(FirstSymtab)

\* C12 as amended: the module's symbol-table Section is built from the last
\* section of symbol-table type in section-header order and its
\* string-table Section from the section that last one's link names
C12_LastSymtabWins ==
    (elf_called /\ elf_result.ok /\ Cardinality(SymtabIndices) > 1) =>
        SectionsFrom(LastSymtab)

\* C12 witness: a module is produced from a file with two sections of
\* symbol-table type that differ in their cells and in their links
C12_Witness ==
    /\ elf_called /\ elf_result.ok
    /\ Cardinality(SymtabIndices) > 1
    /\ SectionOf(FirstSymtab) # SectionOf(LastSymtab)
    /\ SectionOf(FileShdr(FirstSymtab).link) # SectionOf(FileShdr(LastSymtab).link)
    /\ SectionsFrom(LastSymtab)

\* e_shstrndx is not less than e_shnum
ShstrndxBehind == FileEhdr.shstrndx >= FileEhdr.shnum

\* no section header has symbol-table type
NoSymtab == SymtabIndices = {}

\* the section-header string table lies within the file
ShStrInFile ==
    LET shstr_shdr == FileShdr(FileEhdr.shstrndx)
    IN  shstr_shdr.size = 0 \/ shstr_shdr.offset + shstr_shdr.size <= Len(elf_file)

\* a section header whose name offset lies behind the section-header string
\* table
NameBehind ==
    \E i \in 0..(FileEhdr.shnum - 1) :
        FileShdr(i).name > FileShdr(FileEhdr.shstrndx).size

\* a section header whose Section cannot be mapped
Unmappable ==
    \E i \in 0..(FileEhdr.shnum - 1) :
        FileShdr(i).size = 0 /\ FileShdr(i).offset % Granularity = 0

\* C13: Elf::new fails with ElfParseError whenever e_shstrndx is not less
\* than the number of section headers and whenever no section header has
\* symbol-table type
C13_ParseErrorWhenever ==
    (elf_called /\ (ShstrndxBehind \/ NoSymtab)) =>
        elf_result = Err("ElfParseError")

\* C13 as amended: in both cases no Module is produced. With e_shstrndx not
\* less than e_shnum the failure is ElfParseError once all e_shnum section
\* headers are read, and Eof when they cannot be read. With no section
\* header of symbol-table type the failure is ElfParseError unless the call
\* ends before the end of the section loop: with Eof from reading the
\* section headers or the string table, with MmapError from a section that
\* cannot be mapped, or with the abort on a name offset behind the string
\* table.
C13_NoModuleAndParseError ==
    /\ (elf_called /\ (ShstrndxBehind \/ NoSymtab)) => ~elf_result.ok
    /\ (elf_called /\ ShstrndxBehind) =>
          IF ShdrsInFile THEN elf_result = Err("ElfParseError")
          ELSE elf_result = Err("Eof")
    /\ (elf_called /\ NoSymtab /\ ~ShstrndxBehind) =>
          \/ elf_result = Err("ElfParseError")
          \/ elf_result = Err("Eof") /\ (~ShdrsInFile \/ ~ShStrInFile)
          \/ elf_result = Err("MmapError") /\ Unmappable
          \/ IsPanic(elf_result) /\ NameBehind

\* C13 witness: a file whose section headers are all read, with a string
\* table index in range, a section named ".debug_info" and no section of
\* symbol-table type, has been refused with ElfParseError
C13_Witness ==
    /\ elf_called /\ NoSymtab /\ ~ShstrndxBehind /\ ShdrsInFile
    /\ FileEhdr.shnum > 3
    /\ ~NameBehind /\ ~Unmappable
    /\ elf_result = Err("ElfParseError")

\* C16: whatever the file holds, Elf::new ends by returning a Module or an
\* error value; it never aborts
C16_ElfNewNeverAborts == elf_called => ~IsPanic(elf_result)

----------------------------------------------------------------------------
(* pe.rs: doit. The file's cells are bytes here, and multi-byte fields are
   read as the code reads them. *)

\* a byte holds a natural below ByteMod
ByteMod == 256

\* `transmute(buf)` of a filled byte buffer to an unsigned integer, on a
\* little-endian target
RECURSIVE transmute(_)
transmute(buf) ==
    IF buf = <<>> THEN 0 ELSE Head(buf) + ByteMod * transmute(Tail(buf))

\* FillExact::read_u16 on the file at position pos
read_u16(cells, pos) ==
    CHOOSE out \in
        {IF r.ok THEN Ok(transmute(r.val)) ELSE r :
            r \in {file_fill_exact(cells, pos, 2)}} : TRUE

\* FillExact::read_u32 on the file at position pos
read_u32(cells, pos) ==
    CHOOSE out \in
        {IF r.ok THEN Ok(transmute(r.val)) ELSE r :
            r \in {file_fill_exact(cells, pos, 4)}} : TRUE

\* "the location of pe header is at 0x3c"
HeaderPointerAt == 60
\* the signature "PE\0\0" as a u32: 0x4550
PeSignature == 17744
\* the machine value that is accepted: 0x8664
MachineAmd64 == 34404
\* size_of::<Symbol>(): name 8, value 4, section_number 2, type_ 2,
\* storage_class 1, num_aux_symbols 1
SymbolSize == 18
\* `for _ in 0..30`
SymbolLoop == 30

\* what doit has printed so far, and its result if it has ended
PeOut(out, res) == [out |-> out, res |-> res]

\* a line doit prints: which println! it is, and the values it shows; a
\* symbol name that is not UTF-8 is shown as "???"
Line(k, v) ==
    [k |-> k, v |-> IF k = "symbolname" /\ ~utf8_valid(v) THEN <<"???">> ELSE v]

\* open_module_file: GetModuleFileNameW, then File::open
open_module_file(e) ==
    IF ~e.name_ok THEN Err("PeParseError")
    ELSE IF e.file = NoFile THEN Err("IoError")
    ELSE Ok(e.file)

\* mutant of pe_header_pos: the pointer is read as a 2-byte field
pe_header_pos_u16(cells) == read_u16(cells, HeaderPointerAt)

\* seek to 0x3c and read the position of the PE header
pe_header_pos(cells) == read_u32(cells, HeaderPointerAt)

\* the Symbol the bytes of a filled buffer are
decode_symbol(buf) ==
    [name |-> SubSeq(buf, 1, 8),
     value |-> transmute(SubSeq(buf, 9, 12)),
     section_number |-> transmute(SubSeq(buf, 13, 14)),
     type_ |-> transmute(SubSeq(buf, 15, 16)),
     storage_class |-> buf[17],
     num_aux_symbols |-> buf[18]]

\* read_struct!(read_symbol, Symbol)
read_symbol(s) ==
    CHOOSE out \in
        {IF r.res.ok THEN [sec |-> r.sec, res |-> Ok(decode_symbol(r.res.val))]
         ELSE r : r \in {fill_exact(s, SymbolSize)}} : TRUE

\* the name doit prints for a symbol: the string-table entry when the first
\* four name bytes are zero, the eight name bytes otherwise. CStr::from_ptr
\* on a string that is not terminated inside the mapping reads behind it:
\* `beyond` says whether zero bytes or no memory lie there.
symbol_name_bytes(symbol, string_table, beyond) ==
    IF SubSeq(symbol.name, 1, 4) = <<0, 0, 0, 0>>
    THEN CHOOSE out \in
        {IF ~ptr.ok THEN ptr
         ELSE IF beyond = "fault"
                 /\ \A j \in (ptr.val + 1)..Len(string_table.map) :
                        string_table.map[j] # 0
              THEN Panic
         ELSE Ok(CStrFrom(string_table, ptr.val)) :
            ptr \in {ptr_at(string_table, transmute(SubSeq(symbol.name, 5, 8)))}} : TRUE
    ELSE Ok(symbol.name)

\* `for _ in 0..symbol.num_aux_symbols`
RECURSIVE read_aux_symbols(_, _, _)
read_aux_symbols(s, n, out) ==
    IF n = 0 THEN [sec |-> s, out |-> out, res |-> Ok(<<>>)]
    ELSE CHOOSE o \in
        {IF ~r.res.ok THEN [sec |-> r.sec, out |-> out, res |-> r.res]
         ELSE read_aux_symbols(r.sec, n - 1, Append(out, Line("aux_symbol", r.res.val))) :
            r \in {read_symbol(s)}} : TRUE

\* one turn of `for _ in 0..30`: a symbol, its name, its auxiliary records
symbol_turn(symbol_table, string_table, out, beyond) ==
    CHOOSE o \in
        {IF ~r.res.ok THEN [sec |-> r.sec, out |-> out, res |-> r.res]
         ELSE CHOOSE o2 \in
            {IF ~name.ok
             THEN [sec |-> r.sec, out |-> Append(out, Line("symbol", r.res.val)),
                   res |-> name]
             ELSE read_aux_symbols(r.sec, r.res.val.num_aux_symbols,
                    out \o <<Line("symbol", r.res.val), Line("symbolname", name.val)>>) :
                name \in {symbol_name_bytes(r.res.val, string_table, beyond)}} : TRUE :
            r \in {read_symbol(symbol_table)}} : TRUE

\* `for _ in 0..30` after n turns: a failed turn ends doit
RECURSIVE symbol_loop(_, _, _, _, _)
symbol_loop(symbol_table, string_table, n, out, beyond) ==
    IF n = 0 THEN [sec |-> symbol_table, out |-> out, res |-> Ok(<<>>)]
    ELSE CHOOSE o \in
        {IF ~before.res.ok THEN before
         ELSE symbol_turn(before.sec, string_table, before.out, beyond) :
            before \in {symbol_loop(symbol_table, string_table, n - 1, out,
                                    beyond)}} : TRUE

\* test routine #2: Module32FirstW must succeed; one line per module of
\* the snapshot
list_modules(out, snapshot) ==
    IF snapshot = 0 THEN PeOut(out, Err("PeParseError"))
    ELSE PeOut(out \o [i \in 1..snapshot |-> Line("module_name", <<i>>)], Ok(<<>>))

\* doit from the symbol table on
doit_tables(cells, out, symbol_table_offset, num_symbol, snapshot, beyond) ==
    CHOOSE o \in
        {IF ~symbol_table.ok THEN PeOut(out, symbol_table)
         ELSE IF ~string_table_size.ok THEN PeOut(out, string_table_size)
         ELSE CHOOSE o2 \in
            {IF ~string_table.ok THEN PeOut(out, string_table)
             ELSE CHOOSE o3 \in
                {IF ~lp.res.ok THEN PeOut(lp.out, lp.res)
                 ELSE list_modules(lp.out, snapshot) :
                    lp \in {symbol_loop(symbol_table.val, string_table.val,
                                        SymbolLoop, out, beyond)}} : TRUE :
                string_table \in
                    {section_new(cells, symbol_table_offset + num_symbol * SymbolSize,
                                 string_table_size.val)}} : TRUE :
            symbol_table \in
                {section_new(cells, symbol_table_offset, num_symbol * SymbolSize)},
            string_table_size \in
                {read_u32(cells, symbol_table_offset + num_symbol * SymbolSize)}} : TRUE

\* doit from the COFF header on, which starts at file position pos: the
\* machine is read and tested first; num_sections, the time stamp,
\* symbol_table_offset and num_symbol follow without a gap
doit_coff(cells, out, pos, snapshot, beyond) ==
    CHOOSE o \in
        {IF ~machine.ok THEN PeOut(out, machine)
         ELSE IF machine.val # MachineAmd64 THEN PeOut(out, Err("PeParseError"))
         ELSE IF ~rest.ok THEN PeOut(out, rest)
         ELSE doit_tables(cells,
                Append(out, Line("sections",
                                 <<transmute(SubSeq(rest.val, 1, 2)),
                                   transmute(SubSeq(rest.val, 7, 10)),
                                   transmute(SubSeq(rest.val, 11, 14))>>)),
                transmute(SubSeq(rest.val, 7, 10)),
                transmute(SubSeq(rest.val, 11, 14)), snapshot, beyond) :
            machine \in {read_u16(cells, pos)},
            rest \in {file_fill_exact(cells, pos + 2, 14)}} : TRUE

\* doit on the opened file
doit_file(cells, snapshot, beyond) ==
    CHOOSE o \in
        {IF ~pos.ok THEN PeOut(<<>>, pos)
         ELSE CHOOSE o2 \in
            {IF ~pe_signature.ok
             THEN PeOut(<<Line("header pos", <<pos.val>>)>>, pe_signature)
             ELSE IF pe_signature.val # PeSignature
             THEN PeOut(<<Line("header pos", <<pos.val>>)>>, Err("PeParseError"))
             ELSE doit_coff(cells, <<Line("header pos", <<pos.val>>)>>,
                            pos.val + 4, snapshot, beyond) :
                pe_signature \in {read_u32(cells, pos.val)}} : TRUE :
            pos \in {pe_header_pos(cells)}} : TRUE

\* doit
doit(e, beyond) ==
    CHOOSE o \in
        {IF ~f.ok THEN PeOut(<<>>, f) ELSE doit_file(f.val, e.snapshot, beyond) :
            f \in {open_module_file(e)}} : TRUE

----------------------------------------------------------------------------
(* SpecPe: doit on a family of PE files *)

\* at most MaxSnapshot modules in the process snapshot
MaxSnapshot == 2

\* the n bytes of the value v, lowest first
RECURSIVE Bytes(_, _)
Bytes(v, n) == IF n = 0 THEN <<>> ELSE <<v % ByteMod>> \o Bytes(v \div ByteMod, n - 1)

RECURSIVE Repeat(_, _)
Repeat(q, n) == IF n = 0 THEN <<>> ELSE q \o Repeat(q, n - 1)

\* a COFF symbol record
Symbol(name, num_aux_symbols) ==
    name \o Bytes(0, 4) \o Bytes(1, 2) \o Bytes(32, 2) \o <<2, num_aux_symbols>>

\* a short name, and a name kept in the string table at offset off
ShortName == <<109, 97, 105, 110, 0, 0, 0, 0>>
LongName(off) == <<0, 0, 0, 0>> \o Bytes(off, 4)

\* symbol tables: none; one symbol; SymbolLoop symbols of which the first
\* has its name at offset `off` of the string table and the second an
\* auxiliary record
SymbolTables ==
    [none |-> [num |-> 0, cells |-> <<>>],
     one |-> [num |-> 1, cells |-> Symbol(ShortName, 0)],
     full |-> [num |-> SymbolLoop + 1,
               cells |-> Symbol(LongName(4), 0) \o Symbol(ShortName, 1)
                           \o Symbol(ShortName, 0)
                           \o Repeat(Symbol(ShortName, 0), SymbolLoop - 2)],
     behind |-> [num |-> SymbolLoop + 1,
                 cells |-> Symbol(LongName(7), 0) \o Symbol(ShortName, 1)
                             \o Symbol(ShortName, 0)
                             \o Repeat(Symbol(ShortName, 0), SymbolLoop - 2)],
     open |-> [num |-> SymbolLoop + 1,
               cells |-> Symbol(LongName(6), 0) \o Symbol(ShortName, 1)
                           \o Symbol(ShortName, 0)
                           \o Repeat(Symbol(ShortName, 0), SymbolLoop - 2)]]

\* the string table: its size, "a", and a last name without a null byte
StringTable == Bytes(7, 4) \o <<97, 0, 98>>

\* A PE file: the stub with the header pointer at 0x3c, whose third byte is
\* `high`; at position hp the signature and the COFF header (20 bytes),
\* then the symbol table and the string table; the file is cut to `keep`
\* bytes if it is longer.
PeFile(hp, high, signature, machine, symtab, keep) ==
    LET pointer == Bytes(hp, 2) \o <<high, 0>>
        symbol_table_offset == hp + 24
        cells == [i \in 1..HeaderPointerAt |-> 0] \o pointer
                   \o [i \in 1..(hp - HeaderPointerAt - 4) |-> 0]
                   \o signature \o Bytes(machine, 2) \o Bytes(3, 2) \o Bytes(0, 4)
                   \o Bytes(symbol_table_offset, 4)
                   \o Bytes(SymbolTables[symtab].num, 4) \o <<0, 0, 0, 0>>
                   \o SymbolTables[symtab].cells \o StringTable
    IN  SubSeq(cells, 1, IF keep < Len(cells) THEN keep ELSE Len(cells))

\* The environments of doit. The PE header lies right behind the stub or
\* ByteMod bytes further on; the signature is "PE\0\0" or differs from it
\* in the first or in the last byte; the machine is 0x8664 or 0x14c; the
\* file is cut inside the header pointer, inside the signature, inside the
\* COFF header, or not at all.
PeEnvs ==
    {[name_ok |-> TRUE,
      file |-> PeFile(hp, high, signature, machine, symtab, keep),
      snapshot |-> n] :
        hp \in {HeaderPointerAt + 4, ByteMod + HeaderPointerAt + 4},
        high \in {0, 1},
        signature \in {<<80, 69, 0, 0>>, <<77, 69, 0, 0>>, <<80, 69, 0, 1>>},
        machine \in {MachineAmd64, 332},
        symtab \in DOMAIN SymbolTables,
        keep \in {HeaderPointerAt + 2, HeaderPointerAt + 6, HeaderPointerAt + 14,
                  ByteMod + HeaderPointerAt + 6, ByteMod + HeaderPointerAt + 14,
                  ByteMod + HeaderPointerAt + 28 + (SymbolLoop + 2) * SymbolSize},
        n \in 0..MaxSnapshot}
      \cup {[name_ok |-> FALSE, file |-> NoFile, snapshot |-> 1],
            [name_ok |-> TRUE, file |-> NoFile, snapshot |-> 1]}

PeInit ==
    /\ SecIdle /\ SymIdle /\ LoadIdle /\ PtIdle /\ ElfIdle
    /\ pe_env \in PeEnvs
    /\ pe_out = <<>>
    /\ pe_result = NotCalled

\* doit()
Doit ==
    /\ pe_result = NotCalled
    /\ \E beyond \in {"zero", "fault"} :
         \E r \in {doit(pe_env, beyond)} :
            /\ pe_out' = r.out
            /\ pe_result' = r.res
    /\ UNCHANGED <<pe_env, secVars, symVars, loadVars, ptVars, elfVars>>

SpecPe == PeInit /\ [][Doit]_vars

\* ---- what the file says, read off its bytes
pe_called == pe_result # NotCalled
PeOpened == pe_env.name_ok /\ pe_env.file # NoFile

\* the bytes [pos, pos + n) of the file, as far as it has them
FileBytes(pos, n) ==
    SubSeq(pe_env.file, pos + 1,
           IF pos + n <= Len(pe_env.file) THEN pos + n ELSE Len(pe_env.file))

\* the value of the 2-byte and of the 4-byte field at 0x3c
Pointer2 == transmute(FileBytes(HeaderPointerAt, 2))
Pointer4 == transmute(FileBytes(HeaderPointerAt, 4))

\* doit has printed a position as the header's
HeaderPosPrinted == \E i \in 1..Len(pe_out) : pe_out[i].k = "header pos"

\* doit has gone on behind the signature test: it has read the COFF header
\* and printed it
Accepted == \E i \in 1..Len(pe_out) : pe_out[i].k = "sections"

\* the four bytes "PE\0\0"
SignatureBytes == Bytes(PeSignature, 4)

\* C15: the header's file offset is the value of the 2-byte field at 0x3c;
\* doit seeks there and goes on only if the 4 bytes there are the
\* signature, and fails with the parse error otherwise (for files that
\* have the four bytes from 0x3c on)
C15_TwoBytePointer ==
    (pe_called /\ PeOpened /\ Len(pe_env.file) >= HeaderPointerAt + 4) =>
        /\ HeaderPosPrinted /\ pe_out[1] = Line("header pos", <<Pointer2>>)
        /\ Accepted => FileBytes(Pointer2, 4) = SignatureBytes
        /\ FileBytes(Pointer2, 4) # SignatureBytes => pe_result = Err("PeParseError")

\* C15 as amended: the header's file offset is the value of the 4-byte
\* field at 0x3c..0x3f; doit seeks there and goes on only if the 4 bytes
\* there are the signature; it fails with the parse error if 4 bytes are
\* there and differ from it, and with Eof if the file ends before the end
\* of the field or of the signature
C15_FourBytePointer ==
    (pe_called /\ PeOpened) =>
        /\ Len(pe_env.file) >= HeaderPointerAt + 4 =>
              /\ HeaderPosPrinted /\ pe_out[1] = Line("header pos", <<Pointer4>>)
              /\ Accepted => FileBytes(Pointer4, 4) = SignatureBytes
              /\ Len(FileBytes(Pointer4, 4)) = 4 =>
                    IF FileBytes(Pointer4, 4) = SignatureBytes
                    THEN Accepted \/ pe_result \in {Err("PeParseError"), Err("Eof")}
                    ELSE ~Accepted /\ pe_result = Err("PeParseError")
              /\ Len(FileBytes(Pointer4, 4)) < 4 =>
                    ~Accepted /\ pe_result = Err("Eof")
        /\ Len(pe_env.file) < HeaderPointerAt + 4 =>
              pe_out = <<>> /\ pe_result = Err("Eof")

\* C15 witness: a file whose header pointer needs its second byte has been
\* accepted, and doit has returned Ok(())
C15_Witness ==
    /\ pe_called /\ PeOpened
    /\ Accepted
    /\ Pointer4 >= ByteMod
    /\ pe_out[1] = Line("header pos", <<Pointer4>>)
    /\ FileBytes(Pointer4, 4) = SignatureBytes
    /\ pe_result = Ok(<<>>)

====
